---- MODULE Spec2Model ----
(***************************************************************************)
(* Model of the session orchestrator of arl-backend                        *)
(* (app/services/session_orchestrator.py) together with the session        *)
(* status operations of app/api/endpoints/sessions.py.                     *)
(*                                                                         *)
(* A task id "task_k" is modelled by the natural number k.  An agent       *)
(* output (a dict) is modelled by the value of its "status" field; an      *)
(* exception raised by a task coroutine is the outcome "exception".        *)
(*                                                                         *)
(* Three further specifications model components on their own: the        *)
(* placeholder resolver at the dispatch of one task (SpecResolve), the     *)
(* A2AAgentClient over the ADK agent service (SpecClient), and the         *)
(* OrchestratorAgent of arl.adk_agents on one session (SpecOrch).          *)
(***************************************************************************)
EXTENDS Naturals, Sequences, FiniteSets, TLC

VARIABLES
    status,           \* Session.status of the session row
    roster,           \* names of the enabled, active agents of the session
    pc,               \* position of the workflow run
    tasks,            \* the task list handed to _execute_tasks
    task_status,      \* AgentTask.status, by task id
    task_result,      \* AgentTask.result, by task id
    task_error,       \* AgentTask.error, by task id
    results,          \* local `results` of _execute_tasks
    completed_tasks,  \* local `completed_tasks` of _execute_tasks
    ready_tasks,      \* local `ready_tasks`: ids of the wave in flight
    task_results,     \* state / outcome of each task coroutine of gather
    raised,           \* the exception propagating out of the run, if any
    pending,          \* the `pending` list named by the deadlock error
    waves,            \* history: the ready_tasks lists dispatched so far
    events,           \* history: the _emit_event calls of the run
    task_previous_results, \* history: the result map each task was given
    agent_outcome,    \* history: how each execute_single_agent went
    cells,            \* ids of the tasks whose cell was committed, in order
    memories,         \* ids of the tasks whose memory was committed
    summary,          \* the dict returned by execute_research_workflow
    sink,             \* the event sink: may it fail, failed sends so far
    resolver,         \* one _execute_task call up to its dispatch
    client,           \* one A2AAgentClient and its backing service
    orch              \* one OrchestratorAgent session (arl.adk_agents)

vars == <<status, roster, pc, tasks, task_status, task_result, task_error,
          results, completed_tasks, ready_tasks, task_results, raised,
          pending, waves, events, task_previous_results, agent_outcome,
          cells, memories, summary, sink, resolver, client, orch>>


-----------------------------------------------------------------------------
(* Bounds of the task lists given directly to _execute_tasks.              *)

MaxTasks == 2

MaxEdges == 2

-----------------------------------------------------------------------------
(* Values.                                                                 *)

\* Python values of task inputs and agent outputs, tagged with their kind.
\* A str is the sequence of its tokens, a dict a function from its keys.
Str(t) == [kind |-> "str", toks |-> t, items |-> <<>>]

Num == [kind |-> "int", toks |-> <<>>, items |-> <<>>]

Dict(f) == [kind |-> "dict", toks |-> <<>>, items |-> f]

None == [kind |-> "none", toks |-> <<>>, items |-> <<>>]

\* One task before _execute_task is called on it, with the result map it
\* will be resolved against.
PendingTask(input_data, previous_results) ==
    [pc |-> "pending",
     status |-> "pending",
     input_data |-> input_data,
     previous_results |-> previous_results,
     call_input |-> <<>>,
     resolutions |-> <<>>]

Services == [fails : BOOLEAN, registered : BOOLEAN, configured : BOOLEAN]

\* A2AAgentClient(agent_name) over a given service.  `backing` is the
\* history of the call_agent invocations, `outputs` that of the values
\* returned by call_skill.
NewClient(service) ==
    [is_initialized |-> FALSE,
     _adk_service |-> FALSE,
     _use_adk |-> FALSE,
     raised |-> FALSE,
     service |-> service,
     backing |-> <<>>,
     outputs |-> <<>>]

\* The service of a deployment without the ADK package.
NoService == [fails |-> TRUE, registered |-> FALSE, configured |-> FALSE]

\* SessionService.create_session: a session with an empty state, on which
\* run has not been called.
NewSession == [state |-> <<>>, runs |-> <<>>]

SessionStatus == {"active", "completed", "archived", "failed"}

Pipeline == <<"hypothesis_agent", "experiment_agent", "code_gen_agent",
              "execution_agent", "analysis_agent">>

PipelineAgents == {Pipeline[k] : k \in 1..Len(Pipeline)}

\* What one task coroutine (_execute_task) can produce: a dict whose status
\* field is "success", a dict whose status field is "error" (call_agent's
\* error dicts, passed through by call_skill), or a raised Exception.
Outcomes == {"success", "error", "exception"}

\* A coroutine handed to gather is "created", then "awaiting" its agent call
\* once the event loop has started it, then settled with one of Outcomes.
\* "none" is a task no wave has contained yet.
Unsettled == {"created", "awaiting"}

SeqToSet(s) == {s[i] : i \in 1..Len(s)}

TaskIds(ts) == {ts[i].task_id : i \in 1..Len(ts)}

TaskOf(ts, id) == CHOOSE t \in SeqToSet(ts) : t.task_id = id

AgentTask(id, agent, deps) ==
    [task_id |-> id, agent_name |-> agent, depends_on |-> deps]

-----------------------------------------------------------------------------
(* _plan_research_tasks                                                    *)

\* Variant: the execution stage is constructed without dependencies.
PlannedDeps_ExecutionIndependent(agent) ==
    CASE agent = "hypothesis_agent" -> {}
      [] agent = "experiment_agent" -> {1}
      [] agent = "code_gen_agent"   -> {2}
      [] agent = "execution_agent"  -> {}
      [] agent = "analysis_agent"   -> {1, 2, 4}

\* Variant: the analysis stage waits for the hypothesis task only.
PlannedDeps_AnalysisOnHypothesis(agent) ==
    CASE agent = "hypothesis_agent" -> {}
      [] agent = "experiment_agent" -> {1}
      [] agent = "code_gen_agent"   -> {2}
      [] agent = "execution_agent"  -> {3}
      [] agent = "analysis_agent"   -> {1}

\* The literal depends_on list each stage is constructed with.
PlannedDeps(agent) ==
    CASE agent = "hypothesis_agent" -> {}
      [] agent = "experiment_agent" -> {1}
      [] agent = "code_gen_agent"   -> {2}
      [] agent = "execution_agent"  -> {3}
      [] agent = "analysis_agent"   -> {1, 2, 4}

RECURSIVE PlanFrom(_, _, _)
PlanFrom(k, task_counter, agent_map) ==
    IF k > Len(Pipeline) THEN <<>>
    ELSE IF Pipeline[k] \in agent_map
         THEN <<AgentTask(task_counter + 1, Pipeline[k], PlannedDeps(Pipeline[k]))>>
              \o PlanFrom(k + 1, task_counter + 1, agent_map)
         ELSE PlanFrom(k + 1, task_counter, agent_map)

_plan_research_tasks(agent_map) == PlanFrom(1, 0, agent_map)

-----------------------------------------------------------------------------
(* _execute_tasks                                                          *)

\* Variant: tasks already in completed_tasks are selected again.
ReadyTasks_Redispatch(ts, done) ==
    LET isReady(t) == t.depends_on \subseteq done
        sel == SelectSeq(ts, isReady)
    IN  [i \in 1..Len(sel) |-> sel[i].task_id]

\* Variant: one task per loop iteration, the first ready one of the list.
ReadyTasks_FirstOnly(ts, done) ==
    LET isReady(t) == t.task_id \notin done /\ t.depends_on \subseteq done
        sel == SelectSeq(ts, isReady)
    IN  [i \in 1..(IF sel = <<>> THEN 0 ELSE 1) |-> sel[i].task_id]

\* Variant: `any` in place of `all` in the readiness test.
ReadyTasks_AnyDep(ts, done) ==
    LET isReady(t) == t.task_id \notin done /\ t.depends_on \cap done # {}
        sel == SelectSeq(ts, isReady)
    IN  [i \in 1..Len(sel) |-> sel[i].task_id]

\* Variant: dependency ids that name no task of the list are ignored.
ReadyTasks_KnownDepsOnly(ts, done) ==
    LET isReady(t) == /\ t.task_id \notin done
                      /\ (t.depends_on \cap TaskIds(ts)) \subseteq done
        sel == SelectSeq(ts, isReady)
    IN  [i \in 1..Len(sel) |-> sel[i].task_id]

\* ready_tasks of one loop iteration: ids, in list order, of the tasks not
\* in completed_tasks whose every dependency id is in completed_tasks.
ReadyTasks(ts, done) ==
    LET isReady(t) == t.task_id \notin done /\ t.depends_on \subseteq done
        sel == SelectSeq(ts, isReady)
    IN  [i \in 1..Len(sel) |-> sel[i].task_id]

\* The `pending` list of the deadlock error.
PendingIds(ts, done) ==
    LET notDone(t) == t.task_id \notin done
        sel == SelectSeq(ts, notDone)
    IN  [i \in 1..Len(sel) |-> sel[i].task_id]

NewTaskFields(ts, v) == [id \in TaskIds(ts) |-> v]

\* The events of a run, before any is emitted: those of the workflow and
\* those of each task.
NoEvents == [workflow |-> <<>>, task |-> <<>>]

\* execute_research_workflow has not returned.
NoSummary == [status |-> "none", tasks_completed |-> 0, results |-> <<>>]

\* The lost sends of a run that are counted.
MaxLost == 2

\* An event sink (ws_manager.send_to_user) none of whose sends raises, and
\* one whose sends may raise; `lost` counts the sends that raised.
ReliableSink == [flaky |-> FALSE, lost |-> 0]

FlakySink == [flaky |-> TRUE, lost |-> 0]

\* The numbers of sends that can raise among n calls of _emit_event; lost
\* sends are counted up to MaxLost.
Lost(n) ==
    {k \in 0..n : sink.flaky \/ k = 0} \cap (0..(MaxLost - sink.lost))

\* Variant: _emit_event without its try/except.
_emit_event_Propagates(sendRaises) ==
    IF sendRaises THEN "raised" ELSE "returned"

\* _emit_event awaits the send inside try/except Exception and only logs:
\* it returns whether or not the send raised.
_emit_event(sendRaises) == "returned"

\* Where execute_research_workflow goes on after a call of _emit_event in
\* its try block, and what it has raised.
AfterEmit(sendRaises, nextpc) ==
    IF _emit_event(sendRaises) = "raised" THEN "except" ELSE nextpc

RaisedAfterEmit(sendRaises) ==
    IF _emit_event(sendRaises) = "raised" THEN "exception" ELSE raised

StartWorkflow ==
    /\ pc = "idle"
    /\ status' = "active"
    /\ events' = [events EXCEPT !.workflow = Append(@, "workflow_started")]
    /\ \E lost \in Lost(1) :
           /\ sink' = [sink EXCEPT !.lost = @ + lost]
           /\ pc' = AfterEmit(lost > 0, "plan")
           /\ raised' = RaisedAfterEmit(lost > 0)
    /\ UNCHANGED <<roster, tasks, task_status, task_result, task_error,
                   results, completed_tasks, ready_tasks, task_results,
                   pending, waves, task_previous_results, agent_outcome,
                   cells, memories, summary, resolver, client, orch>>

Plan ==
    /\ pc = "plan"
    /\ tasks' = _plan_research_tasks(roster)
    /\ task_status' = NewTaskFields(tasks', "pending")
    /\ task_result' = NewTaskFields(tasks', "None")
    /\ task_error' = NewTaskFields(tasks', "None")
    /\ task_results' = NewTaskFields(tasks', "none")
    /\ events' = [events EXCEPT !.task = NewTaskFields(tasks', <<>>)]
    /\ pc' = "planned"
    /\ task_previous_results' = NewTaskFields(tasks', <<>>)
    /\ agent_outcome' = NewTaskFields(tasks', "none")
    /\ UNCHANGED <<status, roster, results, completed_tasks, ready_tasks,
                   raised, pending, waves, cells, memories, summary, sink,
                   resolver, client, orch>>

EnterExecuteTasks ==
    /\ pc = "planned"
    /\ results' = <<>>
    /\ completed_tasks' = {}
    /\ pc' = "loop"
    /\ UNCHANGED <<status, roster, tasks, task_status, task_result,
                   task_error, ready_tasks, task_results, raised, pending,
                   waves, events, task_previous_results, agent_outcome, cells,
                   memories, summary, sink, resolver, client, orch>>

BeginWave ==
    /\ pc = "loop"
    /\ Cardinality(completed_tasks) < Len(tasks)
    /\ ReadyTasks(tasks, completed_tasks) # <<>>
    /\ ready_tasks' = ReadyTasks(tasks, completed_tasks)
    /\ task_results' = [id \in DOMAIN task_results |->
                            IF id \in SeqToSet(ready_tasks') THEN "created"
                            ELSE task_results[id]]
    /\ waves' = Append(waves, ready_tasks')
    /\ pc' = "wave"
    /\ UNCHANGED <<status, roster, tasks, task_status, task_result,
                   task_error, results, completed_tasks, raised, pending,
                   events, task_previous_results, agent_outcome, cells,
                   memories, summary, sink, resolver, client, orch>>

Deadlock ==
    /\ pc = "loop"
    /\ Cardinality(completed_tasks) < Len(tasks)
    /\ ReadyTasks(tasks, completed_tasks) = <<>>
    /\ pending' = PendingIds(tasks, completed_tasks)
    /\ raised' = "deadlock"
    /\ pc' = "except"
    /\ UNCHANGED <<status, roster, tasks, task_status, task_result,
                   task_error, results, completed_tasks, ready_tasks,
                   task_results, waves, events, task_previous_results,
                   agent_outcome, cells, memories, summary, sink, resolver,
                   client, orch>>

ReturnResults ==
    /\ pc = "loop"
    /\ ~(Cardinality(completed_tasks) < Len(tasks))
    /\ pc' = "returned"
    /\ UNCHANGED <<status, roster, tasks, task_status, task_result,
                   task_error, results, completed_tasks, ready_tasks,
                   task_results, raised, pending, waves, events,
                   task_previous_results, agent_outcome, cells, memories,
                   summary, sink, resolver, client, orch>>

\* The coroutines of a wave are started by the event loop in list order;
\* each marks its task running and resolves its input against the result
\* map it was given, before its first suspension.
StartTask(i) ==
    /\ pc = "wave"
    /\ i \in 1..Len(ready_tasks)
    /\ task_results[ready_tasks[i]] = "created"
    /\ \A j \in 1..(i - 1) : task_results[ready_tasks[j]] # "created"
    /\ task_status' = [task_status EXCEPT ![ready_tasks[i]] = "running"]
    /\ task_results' = [task_results EXCEPT ![ready_tasks[i]] = "awaiting"]
    /\ task_previous_results' =
           [task_previous_results EXCEPT ![ready_tasks[i]] = results]
    /\ UNCHANGED <<status, roster, pc, tasks, task_result, task_error,
                   results, completed_tasks, ready_tasks, raised, pending,
                   waves, events, agent_outcome, cells, memories, summary,
                   sink, resolver, client, orch>>

\* Variant: the agent lookup is inside the try block, so that a missing
\* agent is reported by agent_error.
AgentRuns_LookupInsideTry ==
    {[outcome |-> o, cell |-> TRUE, memory |-> TRUE,
      emitted |-> <<"agent_started", "agent_completed", "cell_created">>] :
         o \in {"success", "error"}}
    \cup
    {[outcome |-> "exception", cell |-> FALSE, memory |-> FALSE,
      emitted |-> <<"agent_error">>],
     [outcome |-> "exception", cell |-> FALSE, memory |-> FALSE,
      emitted |-> <<"agent_started", "agent_completed", "agent_error">>],
     [outcome |-> "exception", cell |-> TRUE, memory |-> FALSE,
      emitted |-> <<"agent_started", "agent_completed", "cell_created",
                    "agent_error">>]}

\* The ways execute_single_agent ends, each with the events it emits and
\* the records it commits: call_skill returns a dict (status success or
\* error), and the cell and the memory are created; or an exception is
\* raised by the client / agent lookup (before agent_started), by the
\* creation of the cell (nothing committed), or by the creation of the
\* memory (the cell is committed).  call_skill itself raises no Exception.
AgentRuns ==
    {[outcome |-> o, cell |-> TRUE, memory |-> TRUE,
      emitted |-> <<"agent_started", "agent_completed", "cell_created">>] :
         o \in {"success", "error"}}
    \cup
    {[outcome |-> "exception", cell |-> FALSE, memory |-> FALSE,
      emitted |-> <<>>],
     [outcome |-> "exception", cell |-> FALSE, memory |-> FALSE,
      emitted |-> <<"agent_started", "agent_completed", "agent_error">>],
     [outcome |-> "exception", cell |-> TRUE, memory |-> FALSE,
      emitted |-> <<"agent_started", "agent_completed", "cell_created",
                    "agent_error">>]}

\* What the task coroutine yields: the outcome of execute_single_agent,
\* unless one of its calls of _emit_event raised.
TaskOutcome(run, lost) ==
    IF _emit_event(lost > 0) = "raised" THEN "exception" ELSE run.outcome

\* Variant: the coroutine stores its own result in the result map.
SettleTask_StoresResult(id, run) ==
    /\ pc = "wave"
    /\ id \in SeqToSet(ready_tasks)
    /\ task_results[id] = "awaiting"
    /\ \E lost \in Lost(Len(run.emitted)) :
           /\ task_results' = [task_results EXCEPT
                                   ![id] = TaskOutcome(run, lost)]
           /\ sink' = [sink EXCEPT !.lost = @ + lost]
    /\ results' = IF run.outcome = "exception" THEN results
                  ELSE [k \in DOMAIN results \cup {id} |->
                           IF k = id THEN run.outcome ELSE results[k]]
    /\ agent_outcome' = [agent_outcome EXCEPT ![id] = run.outcome]
    /\ events' = [events EXCEPT !.task[id] = @ \o run.emitted]
    /\ cells' = IF run.cell THEN Append(cells, id) ELSE cells
    /\ memories' = IF run.memory THEN Append(memories, id) ELSE memories
    /\ UNCHANGED <<status, roster, pc, tasks, task_status, task_result,
                   task_error, completed_tasks, ready_tasks, raised, pending,
                   waves, task_previous_results, summary, resolver, client,
                   orch>>

\* The rest of _execute_task: execute_single_agent returns the output of
\* call_skill, or raises.
SettleTask(id, run) ==
    /\ pc = "wave"
    /\ id \in SeqToSet(ready_tasks)
    /\ task_results[id] = "awaiting"
    /\ \E lost \in Lost(Len(run.emitted)) :
           /\ task_results' = [task_results EXCEPT
                                   ![id] = TaskOutcome(run, lost)]
           /\ sink' = [sink EXCEPT !.lost = @ + lost]
    /\ agent_outcome' = [agent_outcome EXCEPT ![id] = run.outcome]
    /\ events' = [events EXCEPT !.task[id] = @ \o run.emitted]
    /\ cells' = IF run.cell THEN Append(cells, id) ELSE cells
    /\ memories' = IF run.memory THEN Append(memories, id) ELSE memories
    /\ UNCHANGED <<status, roster, pc, tasks, task_status, task_result,
                   task_error, results, completed_tasks, ready_tasks, raised,
                   pending, waves, task_previous_results, summary, resolver,
                   client, orch>>
\* Variant: the wave is processed as soon as one of its tasks has settled.
WaveSettled_Any == \E id \in SeqToSet(ready_tasks) : task_results[id] \notin Unsettled

\* gather returns once every coroutine of the wave has settled.
WaveSettled == \A id \in SeqToSet(ready_tasks) : task_results[id] \notin Unsettled

\* Variant: the result map takes only the dicts whose status is success.
ApplyWaveResults_SuccessOnly ==
    LET wave == SeqToSet(ready_tasks)
        failed == {id \in wave : task_results[id] = "exception"}
        ok == wave \ failed
        stored == {id \in ok : task_results[id] = "success"}
    IN  /\ task_status' = [id \in DOMAIN task_status |->
                             IF id \in failed THEN "failed"
                             ELSE IF id \in ok THEN "completed"
                             ELSE task_status[id]]
        /\ task_error' = [id \in DOMAIN task_error |->
                             IF id \in failed THEN task_results[id]
                             ELSE task_error[id]]
        /\ task_result' = [id \in DOMAIN task_result |->
                             IF id \in ok THEN task_results[id]
                             ELSE task_result[id]]
        /\ results' = [id \in DOMAIN results \cup stored |->
                             IF id \in stored THEN task_results[id]
                             ELSE results[id]]
        /\ completed_tasks' = completed_tasks \cup wave

\* The loop over zip(ready_tasks, task_results).
ApplyWaveResults ==
    LET wave == SeqToSet(ready_tasks)
        failed == {id \in wave : task_results[id] = "exception"}
        ok == wave \ failed
    IN  /\ task_status' = [id \in DOMAIN task_status |->
                             IF id \in failed THEN "failed"
                             ELSE IF id \in ok THEN "completed"
                             ELSE task_status[id]]
        /\ task_error' = [id \in DOMAIN task_error |->
                             IF id \in failed THEN task_results[id]
                             ELSE task_error[id]]
        /\ task_result' = [id \in DOMAIN task_result |->
                             IF id \in ok THEN task_results[id]
                             ELSE task_result[id]]
        /\ results' = [id \in DOMAIN results \cup ok |->
                             IF id \in ok THEN task_results[id]
                             ELSE results[id]]
        /\ completed_tasks' = completed_tasks \cup wave

\* Variant: gather without return_exceptions, a task's exception leaves
\* _execute_tasks.
ProcessResults_Propagate ==
    /\ pc = "wave"
    /\ WaveSettled
    /\ IF \E id \in SeqToSet(ready_tasks) : task_results[id] = "exception"
       THEN /\ raised' = "exception"
            /\ pc' = "except"
            /\ UNCHANGED <<status, roster, tasks, task_status, task_result,
                           task_error, results, completed_tasks, ready_tasks,
                           task_results, pending, waves, events,
                           task_previous_results, agent_outcome, cells,
                           memories, summary, sink, resolver, client, orch>>
       ELSE /\ ApplyWaveResults
            /\ pc' = "loop"
            /\ UNCHANGED <<status, roster, tasks, ready_tasks, task_results,
                           raised, pending, waves, events,
                           task_previous_results, agent_outcome, cells,
                           memories, summary, sink, resolver, client, orch>>

ProcessResults ==
    /\ pc = "wave"
    /\ WaveSettled
    /\ ApplyWaveResults
    /\ pc' = "loop"
    /\ UNCHANGED <<status, roster, tasks, ready_tasks, task_results, raised,
                   pending, waves, events, task_previous_results,
                   agent_outcome, cells, memories, summary, sink, resolver,
                   client, orch>>

WorkflowCompleted ==
    /\ pc = "returned"
    /\ status' = "completed"
    /\ events' = [events EXCEPT !.workflow = Append(@, "workflow_completed")]
    /\ \E lost \in Lost(1) :
           /\ sink' = [sink EXCEPT !.lost = @ + lost]
           /\ pc' = AfterEmit(lost > 0, "done")
           /\ raised' = RaisedAfterEmit(lost > 0)
           /\ summary' = IF pc' = "done"
                         THEN [status |-> "success",
                               tasks_completed |-> Len(tasks),
                               results |-> results]
                         ELSE summary
    /\ UNCHANGED <<roster, tasks, task_status, task_result, task_error,
                   results, completed_tasks, ready_tasks, task_results,
                   pending, waves, task_previous_results, agent_outcome,
                   cells, memories, resolver, client, orch>>

WorkflowFailed ==
    /\ pc = "except"
    /\ status' = "failed"
    /\ events' = [events EXCEPT !.workflow = Append(@, "workflow_failed")]
    /\ pc' = "raised"
    /\ \E lost \in Lost(1) : sink' = [sink EXCEPT !.lost = @ + lost]
    /\ UNCHANGED <<roster, tasks, task_status, task_result, task_error,
                   results, completed_tasks, ready_tasks, task_results,
                   raised, pending, waves, task_previous_results,
                   agent_outcome, cells, memories, summary, resolver, client,
                   orch>>

\* A later request builds a fresh orchestrator for the same session.
NewOrchestrator ==
    /\ pc \in {"done", "raised"}
    /\ pc' = "idle"
    /\ tasks' = <<>>
    /\ task_status' = <<>>
    /\ task_result' = <<>>
    /\ task_error' = <<>>
    /\ task_results' = <<>>
    /\ results' = <<>>
    /\ completed_tasks' = {}
    /\ ready_tasks' = <<>>
    /\ raised' = "none"
    /\ pending' = <<>>
    /\ waves' = <<>>
    /\ events' = NoEvents
    /\ task_previous_results' = <<>>
    /\ agent_outcome' = <<>>
    /\ cells' = <<>>
    /\ memories' = <<>>
    /\ summary' = NoSummary
    /\ sink' = [sink EXCEPT !.lost = 0]
    /\ UNCHANGED <<status, roster, resolver, client, orch>>

-----------------------------------------------------------------------------
(* Session endpoints                                                       *)

update_session(value) ==
    /\ pc = "idle"
    /\ status' = value
    /\ UNCHANGED <<roster, pc, tasks, task_status, task_result, task_error,
                   results, completed_tasks, ready_tasks, task_results,
                   raised, pending, waves, events, task_previous_results,
                   agent_outcome, cells, memories, summary, sink, resolver,
                   client, orch>>

archive_session ==
    /\ pc = "idle"
    /\ status # "archived"
    /\ status' = "archived"
    /\ UNCHANGED <<roster, pc, tasks, task_status, task_result, task_error,
                   results, completed_tasks, ready_tasks, task_results,
                   raised, pending, waves, events, task_previous_results,
                   agent_outcome, cells, memories, summary, sink, resolver,
                   client, orch>>

-----------------------------------------------------------------------------
(* Specification of a session and its workflow runs.                       *)

Init ==
    /\ status = "active"
    /\ roster \in SUBSET PipelineAgents
    /\ pc = "idle"
    /\ tasks = <<>>
    /\ task_status = <<>>
    /\ task_result = <<>>
    /\ task_error = <<>>
    /\ task_results = <<>>
    /\ results = <<>>
    /\ completed_tasks = {}
    /\ ready_tasks = <<>>
    /\ raised = "none"
    /\ pending = <<>>
    /\ waves = <<>>
    /\ events = NoEvents
    /\ task_previous_results = <<>>
    /\ agent_outcome = <<>>
    /\ cells = <<>>
    /\ memories = <<>>
    /\ summary = NoSummary
    /\ sink = ReliableSink
    /\ resolver = PendingTask(<<>>, Dict(<<>>))
    /\ client = NewClient(NoService)
    /\ orch = NewSession

ExecuteStep ==
    \/ EnterExecuteTasks
    \/ BeginWave
    \/ Deadlock
    \/ ReturnResults
    \/ \E i \in 1..Len(ready_tasks) : StartTask(i)
    \/ \E id \in SeqToSet(ready_tasks), run \in AgentRuns : SettleTask(id, run)
    \/ ProcessResults
    \/ WorkflowCompleted
    \/ WorkflowFailed

Next ==
    \/ StartWorkflow
    \/ Plan
    \/ ExecuteStep
    \/ NewOrchestrator
    \/ \E v \in SessionStatus : update_session(v)
    \/ archive_session

Spec == Init /\ [][Next]_vars

\* The same sessions and operations over an event sink whose sends may
\* raise.
InitSink ==
    /\ status = "active"
    /\ roster \in SUBSET PipelineAgents
    /\ pc = "idle"
    /\ tasks = <<>>
    /\ task_status = <<>>
    /\ task_result = <<>>
    /\ task_error = <<>>
    /\ task_results = <<>>
    /\ results = <<>>
    /\ completed_tasks = {}
    /\ ready_tasks = <<>>
    /\ raised = "none"
    /\ pending = <<>>
    /\ waves = <<>>
    /\ events = NoEvents
    /\ task_previous_results = <<>>
    /\ agent_outcome = <<>>
    /\ cells = <<>>
    /\ memories = <<>>
    /\ summary = NoSummary
    /\ sink = FlakySink
    /\ resolver = PendingTask(<<>>, Dict(<<>>))
    /\ client = NewClient(NoService)
    /\ orch = NewSession

SpecSink == InitSink /\ [][Next]_vars

-----------------------------------------------------------------------------
(* Specification of _execute_tasks on an arbitrary task list, inside a     *)
(* workflow run whose planning step produced that list.                    *)

Edges(n) == (1..n) \X (1..(n + 1))

Graph(n, E) ==
    [i \in 1..n |->
        AgentTask(i, Pipeline[((i - 1) % Len(Pipeline)) + 1],
                  {e[2] : e \in {x \in E : x[1] = i}})]

TaskLists ==
    UNION {{Graph(n, E) : E \in {S \in SUBSET Edges(n) : Cardinality(S) <= MaxEdges}}
           : n \in 0..MaxTasks}

InitTasks ==
    /\ status = "active"
    /\ tasks \in TaskLists
    /\ roster = {tasks[i].agent_name : i \in 1..Len(tasks)}
    /\ pc = "planned"
    /\ task_status = NewTaskFields(tasks, "pending")
    /\ task_result = NewTaskFields(tasks, "None")
    /\ task_error = NewTaskFields(tasks, "None")
    /\ task_results = NewTaskFields(tasks, "none")
    /\ results = <<>>
    /\ completed_tasks = {}
    /\ ready_tasks = <<>>
    /\ raised = "none"
    /\ pending = <<>>
    /\ waves = <<>>
    /\ events = [workflow |-> <<"workflow_started">>,
                 task |-> NewTaskFields(tasks, <<>>)]
    /\ task_previous_results = NewTaskFields(tasks, <<>>)
    /\ agent_outcome = NewTaskFields(tasks, "none")
    /\ cells = <<>>
    /\ memories = <<>>
    /\ summary = NoSummary
    /\ sink = ReliableSink
    /\ resolver = PendingTask(<<>>, Dict(<<>>))
    /\ client = NewClient(NoService)
    /\ orch = NewSession

NextTasks == ExecuteStep

SpecTasks == InitTasks /\ [][NextTasks]_vars

FairSpecTasks == SpecTasks /\ WF_vars(NextTasks)

-----------------------------------------------------------------------------
(* Dependency relation of a task list.                                     *)

DepsOf(ts, id) == TaskOf(ts, id).depends_on \cap TaskIds(ts)

RECURSIVE Reach(_, _, _)
Reach(ts, S, n) ==
    IF n = 0 THEN S
    ELSE Reach(ts, S \cup UNION {DepsOf(ts, x) : x \in S}, n - 1)

\* The tasks id depends on, directly or transitively.
Ancestors(ts, id) == Reach(ts, DepsOf(ts, id), Len(ts))

Acyclic(ts) == \A id \in TaskIds(ts) : id \notin Ancestors(ts, id)

ClosedDeps(ts) == \A id \in TaskIds(ts) : TaskOf(ts, id).depends_on \subseteq TaskIds(ts)

WellFormed(ts) == Acyclic(ts) /\ ClosedDeps(ts)

HasUnknownDep(ts) == ~ClosedDeps(ts)

Dispatched == UNION {SeqToSet(waves[w]) : w \in 1..Len(waves)}

RunEnded == pc \in {"done", "raised"}

TerminalTaskStatus == {"completed", "failed", "skipped-due-to-upstream-failure"}

AllSucceed == \A id \in DOMAIN task_results : task_results[id] \notin {"error", "exception"}

-----------------------------------------------------------------------------
(* _resolve_placeholders and the dispatch of one task by _execute_task.    *)
(*                                                                         *)
(* The tokens of a str are the markers "{{" and "}}", the separator ".",   *)
(* the blank " ", and names.                                               *)

MaxParams == 2

MaxResolutions == 2

TaskName(k) == "task_" \o ToString(k)

startswith(s, tok) == Len(s) >= 1 /\ s[1] = tok

endswith(s, tok) == Len(s) >= 1 /\ s[Len(s)] = tok

RECURSIVE lstrip(_)
lstrip(s) == IF Len(s) >= 1 /\ s[1] = " " THEN lstrip(Tail(s)) ELSE s

RECURSIVE rstrip(_)
rstrip(s) ==
    IF Len(s) >= 1 /\ s[Len(s)] = " "
    THEN rstrip(SubSeq(s, 1, Len(s) - 1))
    ELSE s

strip(s) == rstrip(lstrip(s))

\* str.split(sep): the pieces between the separators, empty pieces kept.
RECURSIVE split(_, _)
split(s, sep) ==
    IF Len(s) = 0 THEN << <<>> >>
    ELSE IF Head(s) = sep THEN << <<>> >> \o split(Tail(s), sep)
    ELSE LET rest == split(Tail(s), sep)
         IN  << <<Head(s)>> \o Head(rest) >> \o Tail(rest)

\* dict.get(part): a part is a key only if it is that one name.
get(current, part) ==
    IF Len(part) = 1 /\ part[1] \in DOMAIN current.items
    THEN current.items[part[1]]
    ELSE None

\* getattr(current, part, None) on a str, an int or None: none of the
\* names of this model is an attribute of these types.
getattr(current, part) == None

RECURSIVE Navigate(_, _)
Navigate(current, parts) ==
    IF Len(parts) = 0 THEN current
    ELSE Navigate(IF current.kind = "dict"
                  THEN get(current, Head(parts))
                  ELSE getattr(current, Head(parts)),
                  Tail(parts))

IsPlaceholder(value) ==
    /\ value.kind = "str"
    /\ startswith(value.toks, "{{")
    /\ endswith(value.toks, "}}")

RefParts(value) ==
    split(strip(SubSeq(value.toks, 2, Len(value.toks) - 1)), ".")

ResolveValue_KeepNone(value, previous_results) ==
    IF IsPlaceholder(value)
    THEN Navigate(previous_results, RefParts(value))
    ELSE value

ResolveValue(value, previous_results) ==
    IF IsPlaceholder(value)
    THEN LET current == Navigate(previous_results, RefParts(value))
         IN  IF current.kind # "none" THEN current ELSE value
    ELSE value

_resolve_placeholders(input_data, previous_results) ==
    [key \in DOMAIN input_data |-> ResolveValue(input_data[key], previous_results)]

\* Agent outputs: the stub of most skills (and the shape of a real call's
\* output), the stub of generate_code, and call_agent's error dict.
TextOutput == Dict([status |-> Str(<<"success">>), raw_output |-> Str(<<"text">>)])

CodeOutput ==
    Dict([status |-> Str(<<"success">>), code |-> Str(<<"text">>),
          language |-> Str(<<"python">>)])

ErrorOutput == Dict([status |-> Str(<<"error">>), error |-> Str(<<"text">>)])

AgentOutputs == {TextOutput, CodeOutput, ErrorOutput}

\* The ids a result map of the model can hold, and one it never holds.
Upstream == {TaskName(1), TaskName(2)}

ParamNames == <<"hypothesis", "experiment_design", "code", "domain">>

Ref(inner) == Str(<<"{{">> \o inner \o <<"}}">>)

ParamValues ==
    { Str(<<"general">>),
      Num,
      Ref(<<TaskName(1)>>),
      Ref(<<TaskName(1), ".", "raw_output">>),
      Ref(<<TaskName(1), ".", "code">>),
      Ref(<<TaskName(1), ".", "result">>),
      Ref(<<TaskName(1), ".", "result", ".", "code">>),
      Ref(<<TaskName(1), ".", "raw_output", ".", "code">>),
      Ref(<<" ", TaskName(1), ".", "raw_output", " ">>),
      Ref(<<TaskName(2), ".", "raw_output">>),
      Ref(<<TaskName(3), ".", "result">>),
      Ref(<<>>),
      Str(<<"{{", TaskName(1), ".", "code">>) }

InputDatas ==
    UNION { [keys -> ParamValues] :
              keys \in SUBSET {ParamNames[i] : i \in 1..MaxParams} }

ResultMaps ==
    { Dict(f) : f \in UNION { [ids -> AgentOutputs] : ids \in SUBSET Upstream } }

_execute_task_WriteBack ==
    /\ resolver.pc = "pending"
    /\ LET resolved_input ==
               _resolve_placeholders(resolver.input_data,
                                     resolver.previous_results)
       IN  resolver' = [resolver EXCEPT
                            !.pc = "dispatched",
                            !.status = "running",
                            !.input_data = resolved_input,
                            !.call_input = resolved_input,
                            !.resolutions = <<resolved_input>>]
    /\ UNCHANGED <<status, roster, pc, tasks, task_status, task_result,
                   task_error, results, completed_tasks, ready_tasks,
                   task_results, raised, pending, waves, events,
                   task_previous_results, agent_outcome, cells, memories,
                   summary, sink, client, orch>>

\* _execute_task up to the call of execute_single_agent: the task is marked
\* running, its input is resolved against the results so far, and the agent
\* is called with the resolved input.
_execute_task ==
    /\ resolver.pc = "pending"
    /\ LET resolved_input ==
               _resolve_placeholders(resolver.input_data,
                                     resolver.previous_results)
       IN  resolver' = [resolver EXCEPT
                            !.pc = "dispatched",
                            !.status = "running",
                            !.call_input = resolved_input,
                            !.resolutions = <<resolved_input>>]
    /\ UNCHANGED <<status, roster, pc, tasks, task_status, task_result,
                   task_error, results, completed_tasks, ready_tasks,
                   task_results, raised, pending, waves, events,
                   task_previous_results, agent_outcome, cells, memories,
                   summary, sink, client, orch>>

\* A further call of _resolve_placeholders with the same arguments.
ResolveAgain ==
    /\ resolver.pc = "dispatched"
    /\ Len(resolver.resolutions) < MaxResolutions
    /\ resolver' = [resolver EXCEPT
                        !.resolutions =
                            Append(@, _resolve_placeholders(
                                          resolver.input_data,
                                          resolver.previous_results))]
    /\ UNCHANGED <<status, roster, pc, tasks, task_status, task_result,
                   task_error, results, completed_tasks, ready_tasks,
                   task_results, raised, pending, waves, events,
                   task_previous_results, agent_outcome, cells, memories,
                   summary, sink, client, orch>>

InitResolve ==
    /\ status = "active"
    /\ roster = {}
    /\ pc = "idle"
    /\ tasks = <<>>
    /\ task_status = <<>>
    /\ task_result = <<>>
    /\ task_error = <<>>
    /\ results = <<>>
    /\ completed_tasks = {}
    /\ task_results = <<>>
    /\ ready_tasks = <<>>
    /\ raised = "none"
    /\ pending = <<>>
    /\ waves = <<>>
    /\ events = NoEvents
    /\ task_previous_results = <<>>
    /\ agent_outcome = <<>>
    /\ cells = <<>>
    /\ memories = <<>>
    /\ summary = NoSummary
    /\ sink = ReliableSink
    /\ client = NewClient(NoService)
    /\ orch = NewSession
    /\ \E input_data \in InputDatas, previous_results \in ResultMaps :
           resolver = PendingTask(input_data, previous_results)

NextResolve == _execute_task \/ ResolveAgain

SpecResolve == InitResolve /\ [][NextResolve]_vars

\* The reference "task X, field path P" a placeholder stands for.
RefTask(value) == Head(RefParts(value))

FieldPath(value) == Tail(RefParts(value))

NamesTask(value) ==
    /\ IsPlaceholder(value)
    /\ Len(RefTask(value)) = 1
    /\ RefTask(value)[1] \in {TaskName(k) : k \in 1..3}

TaskPresent(value, previous_results) ==
    /\ NamesTask(value)
    /\ RefTask(value)[1] \in DOMAIN previous_results.items

FieldValue(value, previous_results) ==
    Navigate(previous_results.items[RefTask(value)[1]], FieldPath(value))

-----------------------------------------------------------------------------
(* A2AAgentClient and the ADK agent service behind it.                     *)
(*                                                                         *)
(* The service is described by what the client can observe of it: whether  *)
(* importing or initialising it raises, whether it holds an agent of the   *)
(* client's name, and whether credentials are configured.  An output is    *)
(* described by where it comes from, its status, and the input it echoes.  *)

MaxCalls == 2

SkillNames ==
    {"generate_hypotheses", "design_experiment", "generate_code",
     "execute_experiment", "analyze_results", "other_skill"}

Inputs == {"prompt_a", "prompt_b"}

initialize_NoCredentialCheck ==
    /\ ~client.is_initialized
    /\ client' =
           IF client.service.fails
           THEN [client EXCEPT !._use_adk = FALSE, !.is_initialized = TRUE]
           ELSE IF client.service.registered
           THEN [client EXCEPT !._adk_service = TRUE,
                               !._use_adk = TRUE,
                               !.is_initialized = TRUE]
           ELSE [client EXCEPT !.is_initialized = TRUE]
    /\ UNCHANGED <<status, roster, pc, tasks, task_status, task_result,
                   task_error, results, completed_tasks, ready_tasks,
                   task_results, raised, pending, waves, events,
                   task_previous_results, agent_outcome, cells, memories,
                   summary, sink, resolver, orch>>

\* A2AAgentClient.initialize: an exception of the service is caught and
\* leaves the client without ADK; otherwise the service is kept only if it
\* holds the agent, and ADK is used only if credentials are configured.
initialize ==
    /\ ~client.is_initialized
    /\ client' =
           IF client.service.fails
           THEN [client EXCEPT !._use_adk = FALSE, !.is_initialized = TRUE]
           ELSE IF client.service.registered
           THEN [client EXCEPT !._adk_service = TRUE,
                               !._use_adk = client.service.configured,
                               !.is_initialized = TRUE]
           ELSE [client EXCEPT !.is_initialized = TRUE]
    /\ UNCHANGED <<status, roster, pc, tasks, task_status, task_result,
                   task_error, results, completed_tasks, ready_tasks,
                   task_results, raised, pending, waves, events,
                   task_previous_results, agent_outcome, cells, memories,
                   summary, sink, resolver, orch>>

\* Variant: an exception of the ADK runner leaves call_agent.
call_agent_Raising(service) ==
    IF service.registered THEN {"success", "error", "raise"} ELSE {"error"}

\* ADKAgentService.call_agent: an error dict if the agent is missing;
\* otherwise the runner's answer as a success dict, or an error dict made
\* of the exception it raised.
call_agent(service) ==
    IF service.registered THEN {"success", "error"} ELSE {"error"}

\* _get_stub_response: one template per known skill and a generic one; the
\* templates of generate_hypotheses and of unknown skills echo the input.
_get_stub_response(skill_name, input_data) ==
    [source |-> "stub",
     status |-> "success",
     template |-> IF skill_name = "other_skill" THEN "generic" ELSE skill_name,
     echo |-> IF skill_name \in {"generate_hypotheses", "other_skill"}
              THEN input_data ELSE "none"]

\* The dict returned by call_agent.
AdkOutput(answer, skill_name) ==
    [source |-> "adk", status |-> answer, template |-> skill_name,
     echo |-> "none"]

\* The condition under which call_skill uses the service.
ConfiguredMode == client._use_adk /\ client._adk_service

call_skill(skill_name, input_data) ==
    /\ client.is_initialized
    /\ Len(client.outputs) < MaxCalls
    /\ IF ConfiguredMode
       THEN \E answer \in call_agent(client.service) :
                client' = [client EXCEPT
                    !.backing = Append(@, answer),
                    !.outputs = Append(@,
                        IF answer # "raise"
                        THEN AdkOutput(answer, skill_name)
                        ELSE _get_stub_response(skill_name, input_data))]
       ELSE client' = [client EXCEPT
                    !.outputs = Append(@,
                        _get_stub_response(skill_name, input_data))]
    /\ UNCHANGED <<status, roster, pc, tasks, task_status, task_result,
                   task_error, results, completed_tasks, ready_tasks,
                   task_results, raised, pending, waves, events,
                   task_previous_results, agent_outcome, cells, memories,
                   summary, sink, resolver, orch>>

InitClient ==
    /\ status = "active"
    /\ roster = {}
    /\ pc = "idle"
    /\ tasks = <<>>
    /\ task_status = <<>>
    /\ task_result = <<>>
    /\ task_error = <<>>
    /\ results = <<>>
    /\ completed_tasks = {}
    /\ task_results = <<>>
    /\ ready_tasks = <<>>
    /\ raised = "none"
    /\ pending = <<>>
    /\ waves = <<>>
    /\ events = NoEvents
    /\ task_previous_results = <<>>
    /\ agent_outcome = <<>>
    /\ cells = <<>>
    /\ memories = <<>>
    /\ summary = NoSummary
    /\ sink = ReliableSink
    /\ resolver = PendingTask(<<>>, Dict(<<>>))
    /\ orch = NewSession
    /\ \E service \in Services : client = NewClient(service)

NextClient ==
    \/ initialize
    \/ \E skill_name \in SkillNames, input_data \in Inputs :
           call_skill(skill_name, input_data)

SpecClient == InitClient /\ [][NextClient]_vars

-----------------------------------------------------------------------------
(* OrchestratorAgent.run (arl.adk_agents.orchestrator) on one session.     *)
(*                                                                         *)
(* The session state is a function from its keys to values; the value a    *)
(* workflow stores under a content key is the number of the run that       *)
(* produced it.  `runs` is the history of the run calls.                   *)

MaxRuns == 5

StageKeys == {"hypotheses", "design", "execution"}

UserRequests == {"generate hypotheses", "continue"}

\* The stage is the first of the three keys the state lacks; the request
\* is not consulted.
_determine_stage(user_request, session_state) ==
    IF "hypotheses" \notin DOMAIN session_state THEN "hypothesis_generation"
    ELSE IF "design" \notin DOMAIN session_state THEN "experiment_design"
    ELSE IF "execution" \notin DOMAIN session_state THEN "execution"
    ELSE "analysis"

\* One way a workflow can go: the specialists it invoked, whether it
\* returned (a specialist's exception leaves the workflow), and its result.
Returns(invoked, result) ==
    [invoked |-> invoked, returned |-> TRUE, result |-> result]

Raises(invoked) == [invoked |-> invoked, returned |-> FALSE, result |-> <<>>]

_hypothesis_workflow(n) ==
    {Raises(<<"hypothesis_agent">>),
     Returns(<<"hypothesis_agent">>,
             [stage |-> "hypothesis_generation", hypotheses |-> n])}

_experiment_workflow(n) ==
    {Raises(<<"experiment_designer">>),
     Raises(<<"experiment_designer", "code_generator">>),
     Returns(<<"experiment_designer", "code_generator">>,
             [stage |-> "experiment_design", design |-> n, code |-> n])}

\* Without Docker the execution is skipped and the analysis still runs;
\* with Docker an exception of the execution engine is caught.
_execution_workflow(n) ==
    {Raises(<<"analysis_agent">>),
     Returns(<<"analysis_agent">>,
             [stage |-> "execution_complete", execution |-> n,
              analysis |-> n, docker_available |-> FALSE]),
     Raises(<<"execution_engine", "analysis_agent">>),
     Returns(<<"execution_engine", "analysis_agent">>,
             [stage |-> "execution_complete", execution |-> n,
              analysis |-> n, docker_available |-> TRUE])}

Workflow(workflow_stage, n) ==
    IF workflow_stage = "hypothesis_generation" THEN _hypothesis_workflow(n)
    ELSE IF workflow_stage = "experiment_design" THEN _experiment_workflow(n)
    ELSE IF workflow_stage = "execution" THEN _execution_workflow(n)
    ELSE {Returns(<<>>, [error |-> workflow_stage])}

\* Variant: the result replaces the state.
update_state_Replace(current_state, state) == state

\* SessionService.update_state: {**current_state, **state}.
update_state(current_state, state) ==
    [k \in DOMAIN current_state \cup DOMAIN state |->
        IF k \in DOMAIN state THEN state[k] ELSE current_state[k]]

run(user_request) ==
    /\ Len(orch.runs) < MaxRuns
    /\ LET n == Len(orch.runs) + 1
           workflow_stage == _determine_stage(user_request, orch.state)
       IN  \E w \in Workflow(workflow_stage, n) :
               orch' = [state |-> IF w.returned
                                  THEN update_state(orch.state, w.result)
                                  ELSE orch.state,
                        runs |-> Append(orch.runs,
                                    [user_request |-> user_request,
                                     keys |-> DOMAIN orch.state,
                                     stage |-> workflow_stage,
                                     invoked |-> w.invoked,
                                     returned |-> w.returned,
                                     result |-> w.result])]
    /\ UNCHANGED <<status, roster, pc, tasks, task_status, task_result,
                   task_error, results, completed_tasks, ready_tasks,
                   task_results, raised, pending, waves, events,
                   task_previous_results, agent_outcome, cells, memories,
                   summary, sink, resolver, client>>

InitOrch ==
    /\ status = "active"
    /\ roster = {}
    /\ pc = "idle"
    /\ tasks = <<>>
    /\ task_status = <<>>
    /\ task_result = <<>>
    /\ task_error = <<>>
    /\ results = <<>>
    /\ completed_tasks = {}
    /\ task_results = <<>>
    /\ ready_tasks = <<>>
    /\ raised = "none"
    /\ pending = <<>>
    /\ waves = <<>>
    /\ events = NoEvents
    /\ task_previous_results = <<>>
    /\ agent_outcome = <<>>
    /\ cells = <<>>
    /\ memories = <<>>
    /\ summary = NoSummary
    /\ sink = ReliableSink
    /\ resolver = PendingTask(<<>>, Dict(<<>>))
    /\ client = NewClient(NoService)
    /\ orch = NewSession

NextOrch == \E user_request \in UserRequests : run(user_request)

SpecOrch == InitOrch /\ [][NextOrch]_vars

\* The stages in their order, and the runs of the history that returned.
StageOrder == <<"hypothesis_generation", "experiment_design", "execution">>

ExpectedStage(i) == IF i <= Len(StageOrder) THEN StageOrder[i] ELSE "analysis"

ReturnedRuns == SelectSeq(orch.runs, LAMBDA r : r.returned)

-----------------------------------------------------------------------------
(* Claims.                                                                 *)

\* C1: if task B depends (directly or transitively) on task A and A ends
\* failed, then B is never dispatched and never becomes running, B ends
\* skipped-due-to-upstream-failure, and every task A depends on stays
\* completed.
C1_FailedUpstreamSkipsDependents ==
    \A a \in TaskIds(tasks), b \in TaskIds(tasks) :
        (a \in Ancestors(tasks, b) /\ task_status[a] = "failed") =>
            /\ b \notin Dispatched
            /\ task_status[b] \notin {"running", "completed", "failed"}
            /\ RunEnded => task_status[b] = "skipped-due-to-upstream-failure"
            /\ \A c \in Ancestors(tasks, a) : task_status[c] = "completed"

\* C2: on an acyclic task list whose dependency ids all name tasks of the
\* list, _execute_tasks never raises the deadlock error, it returns, and on
\* return every task is completed, failed or skipped (none pending or
\* running).
C2_AcyclicTerminates ==
    /\ [](WellFormed(tasks) =>
            /\ raised # "deadlock"
            /\ pc \in {"returned", "done"} =>
                 \A id \in TaskIds(tasks) : task_status[id] \in TerminalTaskStatus)
    /\ (WellFormed(tasks) ~> pc \in {"returned", "done"})

C2_Witness ==
    /\ pc = "returned"
    /\ WellFormed(tasks)
    /\ \E a \in TaskIds(tasks), b \in TaskIds(tasks) :
         /\ a \in Ancestors(tasks, b)
         /\ task_status[a] = "failed"
         /\ task_status[b] = "completed"

\* C3: when a run has finished, the session status is failed if some task
\* ended failed or skipped, and it is completed only if every planned task
\* ended completed.
C3_SessionStatusReflectsTasks ==
    RunEnded =>
        /\ (\E id \in TaskIds(tasks) :
              task_status[id] \in {"failed", "skipped-due-to-upstream-failure"})
           => status = "failed"
        /\ status = "completed" =>
             \A id \in TaskIds(tasks) : task_status[id] = "completed"

\* C4: a task whose agent call raised or returned an output with status
\* error is never marked completed, its output is never stored in the
\* result map, and once its wave is processed it is failed with its error
\* recorded.
C4_ErrorOutcomeFailsTask ==
    \A id \in TaskIds(tasks) :
        task_results[id] \in {"error", "exception"} =>
            /\ task_status[id] # "completed"
            /\ id \notin DOMAIN results
            /\ id \in completed_tasks =>
                 task_status[id] = "failed" /\ task_error[id] # "None"

C6_UnknownDependencyRaises ==
    /\ [](HasUnknownDep(tasks) =>
            /\ pc \notin {"returned", "done"}
            /\ raised = "deadlock" =>
                 /\ ReadyTasks(tasks, completed_tasks) = <<>>
                 /\ pending # <<>>
                 /\ SeqToSet(pending) = TaskIds(tasks) \ completed_tasks
                 /\ \A id \in SeqToSet(pending) : task_status[id] = "pending"
            /\ pc = "raised" => raised = "deadlock" /\ status = "failed")
    /\ (HasUnknownDep(tasks) ~> pc = "raised")

C6_Witness ==
    /\ pc = "raised"
    /\ HasUnknownDep(tasks)
    /\ raised = "deadlock"
    /\ Len(waves) >= 1
    /\ pending # <<>>

\* C7: with all five pipeline agents enabled and every agent call
\* succeeding, the run plans five tasks in pipeline order, dispatches them
\* in five waves of one task each (hypothesis, experiment, code generation,
\* execution, analysis), raises nothing, and ends with the five tasks
\* completed and the session completed.
LinearWaves == [k \in 1..Len(Pipeline) |-> <<k>>]

C7_FullPipelineLinear ==
    (roster = PipelineAgents /\ pc \notin {"idle", "plan"} /\ AllSucceed) =>
        /\ Len(tasks) = Len(Pipeline)
        /\ \A k \in 1..Len(tasks) :
             tasks[k].task_id = k /\ tasks[k].agent_name = Pipeline[k]
        /\ raised = "none"
        /\ pc \notin {"except", "raised"}
        /\ Len(waves) <= Len(LinearWaves)
        /\ waves = SubSeq(LinearWaves, 1, Len(waves))
        /\ pc = "done" =>
             /\ waves = LinearWaves
             /\ \A id \in TaskIds(tasks) : task_status[id] = "completed"
             /\ status = "completed"

C7_Witness ==
    /\ roster = PipelineAgents
    /\ AllSucceed
    /\ pc = "done"
    /\ Len(waves) = Len(Pipeline)

\* C8: with only the hypothesis and analysis agents enabled (and every
\* agent call succeeding), the run completes the hypothesis task, never
\* dispatches the analysis task, raises no error and leaves the session
\* completed.
C8_HypothesisAndAnalysisOnly ==
    (roster = {"hypothesis_agent", "analysis_agent"} /\ AllSucceed) =>
        /\ raised = "none"
        /\ \A id \in Dispatched : TaskOf(tasks, id).agent_name # "analysis_agent"
        /\ RunEnded =>
             /\ status = "completed"
             /\ \E id \in TaskIds(tasks) :
                  /\ TaskOf(tasks, id).agent_name = "hypothesis_agent"
                  /\ task_status[id] = "completed"

\* C9: for every roster the planner emits exactly one task per enabled
\* stage, in pipeline order, and every depends_on id that names a planned
\* task names the task of the earlier stage it is meant to consume.
IntendedStages(agent) ==
    CASE agent = "hypothesis_agent" -> {}
      [] agent = "experiment_agent" -> {"hypothesis_agent"}
      [] agent = "code_gen_agent"   -> {"experiment_agent"}
      [] agent = "execution_agent"  -> {"code_gen_agent"}
      [] agent = "analysis_agent"   -> {"hypothesis_agent", "experiment_agent",
                                        "execution_agent"}

EnabledStages(r) == LET enabled(a) == a \in r IN SelectSeq(Pipeline, enabled)

C9_PlannedDependenciesNameIntendedStage ==
    pc \notin {"idle", "plan"} =>
        /\ [k \in 1..Len(tasks) |-> tasks[k].agent_name] = EnabledStages(roster)
        /\ \A id \in TaskIds(tasks) :
             \A d \in DepsOf(tasks, id) :
                TaskOf(tasks, d).agent_name
                    \in IntendedStages(TaskOf(tasks, id).agent_name)

\* C10: execute_research_workflow on a session whose status is failed or
\* archived is rejected before anything happens: the only step it takes
\* raises a session-state conflict, leaves the status as it was and plans
\* and dispatches nothing.
C10_TerminalSessionRejected ==
    [][(pc = "idle" /\ pc' # "idle" /\ status \in {"failed", "archived"}) =>
          /\ pc' = "raised"
          /\ raised' = "conflict"
          /\ status' = status
          /\ tasks' = <<>>
          /\ waves' = <<>>]_vars

\* C11: over any sequence of session operations the status only moves
\* forward: once it is archived or failed it never becomes active or
\* completed again.
C11_StatusMonotonic ==
    [][(status \in {"archived", "failed"}) =>
          (status' \notin {"active", "completed"})]_vars

\* C19: waves are separated by a barrier and failures stay inside their
\* task: a new ready set is computed, and a wave is processed, only when
\* every task dispatched so far has settled; a task that settled without
\* raising is completed with its result recorded whatever its siblings did.
C19_WaveBarrierAndIsolation ==
    /\ [][(waves' # waves) =>
            \A id \in Dispatched :
                task_results[id] \in Outcomes /\ id \in completed_tasks]_vars
    /\ [][(completed_tasks' # completed_tasks) =>
            \A id \in SeqToSet(ready_tasks) : task_results[id] \in Outcomes]_vars
    /\ [](\A id \in completed_tasks :
            /\ task_results[id] \in Outcomes
            /\ task_results[id] # "exception" =>
                 /\ task_status[id] = "completed"
                 /\ id \in DOMAIN results
                 /\ results[id] = task_results[id]
                 /\ task_result[id] = task_results[id])

C19_Witness ==
    \E w \in 1..Len(waves) :
        \E a \in SeqToSet(waves[w]), b \in SeqToSet(waves[w]) :
            /\ a # b
            /\ task_status[a] = "failed"
            /\ task_status[b] = "completed"
            /\ b \in DOMAIN results

\* C20: if task B depends on task A and B is dispatched, then A's call has
\* settled and A's result is in the result map before B is marked running,
\* and A and B are never in the same wave.
C20_DependencyStoredBeforeDispatch ==
    \A b \in Dispatched :
        \A a \in DepsOf(tasks, b) :
            /\ task_results[a] \in Outcomes
            /\ a \in DOMAIN results
            /\ \A w \in 1..Len(waves) : ~({a, b} \subseteq SeqToSet(waves[w]))

\* C12: when a placeholder names a task of the result map but its field
\* path does not resolve in that task's result, the parameter passed to the
\* agent call is the placeholder string itself, every other parameter is
\* resolved as usual (a literal is passed as it is, a resolvable placeholder
\* is replaced by the referenced value), and the task is dispatched.
C12_UnresolvedFieldKeepsPlaceholder ==
    resolver.pc # "pending" =>
        /\ resolver.pc = "dispatched"
        /\ resolver.status = "running"
        /\ DOMAIN resolver.call_input = DOMAIN resolver.input_data
        /\ \A key \in DOMAIN resolver.input_data :
               LET value == resolver.input_data[key]
                   passed == resolver.call_input[key]
               IN  IF ~IsPlaceholder(value) THEN passed = value
                   ELSE IF ~TaskPresent(value, resolver.previous_results)
                        THEN TRUE
                   ELSE IF FieldValue(value, resolver.previous_results).kind
                               = "none"
                        THEN passed = value
                   ELSE passed = FieldValue(value, resolver.previous_results)

C12_Witness ==
    /\ resolver.pc = "dispatched"
    /\ \E key \in DOMAIN resolver.input_data :
           /\ TaskPresent(resolver.input_data[key], resolver.previous_results)
           /\ FieldValue(resolver.input_data[key],
                         resolver.previous_results).kind = "none"
           /\ resolver.call_input[key] = resolver.input_data[key]
    /\ \E key \in DOMAIN resolver.input_data :
           resolver.call_input[key].kind = "dict"

\* C13: when a placeholder names a task id that the result map does not
\* hold, resolution raises and the task is not dispatched with a
\* substituted value.
C13_AbsentTaskRaises ==
    (/\ resolver.pc # "pending"
     /\ \E key \in DOMAIN resolver.input_data :
            /\ NamesTask(resolver.input_data[key])
            /\ ~TaskPresent(resolver.input_data[key],
                            resolver.previous_results))
        => resolver.pc = "raised"

WorkflowEnd == {"workflow_completed", "workflow_failed"}

Endings(log) == {i \in 1..Len(log) : log[i] \in WorkflowEnd}

C16_InitializeNeverRaises ==
    /\ [](~client.raised)
    /\ [][(~client.is_initialized /\ client' # client) =>
              client'.is_initialized]_vars
    /\ [](client.is_initialized =>
            (ConfiguredMode <=>
                /\ ~client.service.fails
                /\ client.service.registered
                /\ client.service.configured))

C16_Witness ==
    /\ client.is_initialized
    /\ client.service.fails
    /\ client.service.registered
    /\ client.service.configured
    /\ ~ConfiguredMode

\* C17: each call_skill returns one output; in configured mode it makes
\* exactly one call_agent invocation and returns that invocation's output,
\* in non-configured mode it makes none and returns the stub of the skill;
\* a stub is returned only in non-configured mode.
C17_OneInvocationNoRetry ==
    /\ [][client'.outputs # client.outputs =>
              /\ Len(client'.outputs) = Len(client.outputs) + 1
              /\ Len(client'.backing) =
                     Len(client.backing) + (IF ConfiguredMode THEN 1 ELSE 0)]_vars
    /\ [](\A i \in 1..Len(client.outputs) :
            IF ConfiguredMode
            THEN /\ client.outputs[i].source = "adk"
                 /\ client.outputs[i].status = client.backing[i]
            ELSE /\ client.outputs[i].source = "stub"
                 /\ client.outputs[i].status = "success"
                 /\ client.outputs[i].template \in
                        (SkillNames \ {"other_skill"}) \cup {"generic"})

C17_Witness ==
    /\ ConfiguredMode
    /\ Len(client.outputs) = 2
    /\ Len(client.backing) = 2
    /\ client.outputs[1].status = "error"
    /\ client.outputs[2].status = "success"

EarlierWaves(w) == UNION {SeqToSet(waves[v]) : v \in 1..(w - 1)}

\* The result map as it stood when wave w started: the results of the
\* tasks of earlier waves that completed.
ResultsBefore(w) ==
    [k \in {e \in EarlierWaves(w) : task_status[e] = "completed"} |->
        task_result[k]]

InFlight == pc = "wave" /\ ~WaveSettled

\* C21: while a task of a wave is in flight neither the result map nor the
\* session status changes; every started task of a wave was handed the result
\* map as it stood when the wave started; and the result map changes during a
\* wave only once all its tasks have settled, by adding for tasks of the wave
\* the value each one yielded under its own id, leaving older entries alone.
C21_ResultsWrittenBetweenWaves ==
    /\ [][(InFlight) => (results' = results /\ status' = status)]_vars
    /\ [](\A w \in 1..Len(waves) : \A id \in SeqToSet(waves[w]) :
             task_results[id] \notin {"none", "created"}
                => task_previous_results[id] = ResultsBefore(w))
    /\ [][(pc = "wave" /\ results' # results) =>
             (/\ WaveSettled
              /\ DOMAIN results \subseteq DOMAIN results'
              /\ (DOMAIN results' \ DOMAIN results) \subseteq SeqToSet(ready_tasks)
              /\ \A k \in DOMAIN results : results'[k] = results[k]
              /\ \A k \in DOMAIN results' \ DOMAIN results :
                     results'[k] = task_results[k])]_vars

\* Two tasks in one wave, the first settled with a dict while the second is
\* still awaiting its agent, and the result map still empty.
C21_Witness ==
    /\ pc = "wave"
    /\ Len(ready_tasks) = 2
    /\ task_results[ready_tasks[1]] = "success"
    /\ task_results[ready_tasks[2]] = "awaiting"
    /\ task_previous_results[ready_tasks[2]] = <<>>
    /\ DOMAIN results = {}

\* The number of waves that dispatched task id.
TimesDispatched(id) ==
    Cardinality({<<w, i>> \in (1..Len(waves)) \X (1..MaxTasks + 1) :
                    i <= Len(waves[w]) /\ waves[w][i] = id})

\* The number of times event e was emitted for task id.
TimesEmitted(id, e) ==
    Cardinality({i \in 1..Len(events.task[id]) : events.task[id][i] = e})

TaskTransitions ==
    {<<"pending", "running">>, <<"running", "completed">>,
     <<"running", "failed">>}

\* C22: within one run a task's status changes only along pending -> running
\* -> completed or failed; a wave dispatches only pending tasks, so a task is
\* in at most one wave and its agent is called at most once, whatever its
\* outcome.
C22_StatusNeverMovesBackwards ==
    /\ [][(tasks' = tasks) =>
             (\A id \in DOMAIN task_status :
                 (task_status'[id] # task_status[id]) =>
                     (<<task_status[id], task_status'[id]>> \in TaskTransitions))]_vars
    /\ [][(waves' # waves /\ tasks' = tasks) =>
             (\A id \in SeqToSet(ready_tasks') :
                 task_status[id] = "pending" /\ task_results[id] = "none")]_vars
    /\ [](\A id \in DOMAIN task_status :
             /\ TimesDispatched(id) <= 1
             /\ TimesEmitted(id, "agent_started") <= 1
             /\ TimesEmitted(id, "agent_completed") <= 1
             /\ task_status[id] # "pending" => TimesDispatched(id) = 1)

\* A run that went on after a task failed: the failed task has been
\* dispatched once and a later wave has been dispatched.
C22_Witness ==
    /\ \E id \in DOMAIN task_status :
           /\ task_status[id] = "failed"
           /\ TimesDispatched(id) = 1
           /\ id \notin SeqToSet(waves[Len(waves)])
    /\ Len(waves) = 2
    /\ \E id \in SeqToSet(waves[2]) : task_status[id] = "completed"

\* The tasks not in the set `settled` whose every dependency id is in it.
Eligible(settled) ==
    {id \in TaskIds(tasks) \ settled :
        TaskOf(tasks, id).depends_on \subseteq settled}

C24_PlannedDependenciesAcyclic ==
    pc \notin {"idle", "plan"} =>
        /\ Cardinality(TaskIds(tasks)) = Len(tasks)
        /\ Acyclic(tasks)

\* C25: in every state of a run a task has a result exactly when its status
\* is completed and an error exactly when its status is failed, and the
\* result map has an entry for a task id exactly when that task is
\* completed, holding the task's result.
C25_ResultIffCompleted ==
    /\ DOMAIN results \subseteq DOMAIN task_status
    /\ \A id \in DOMAIN task_status :
           /\ task_result[id] # "None" <=> task_status[id] = "completed"
           /\ task_error[id] # "None" <=> task_status[id] = "failed"
           /\ id \in DOMAIN results <=> task_status[id] = "completed"
           /\ id \in DOMAIN results => results[id] = task_result[id]

\* One task completed with an error dict, another failed, and a wave in
\* flight or the run over.
C25_Witness ==
    /\ \E id \in DOMAIN task_status :
           /\ task_status[id] = "completed"
           /\ task_result[id] = "error"
           /\ results[id] = "error"
    /\ \E id \in DOMAIN task_status :
           /\ task_status[id] = "failed"
           /\ task_error[id] = "exception"
           /\ id \notin DOMAIN results

\* The number of records of the sequence recs that task id produced.
RecordsOf(recs, id) == Cardinality({i \in 1..Len(recs) : recs[i] = id})

IsPrefix(s, t) == Len(s) <= Len(t) /\ \A i \in 1..Len(s) : s[i] = t[i]

\* call_skill returned for task id (agent_completed follows it at once).
SkillReturned(id) == TimesEmitted(id, "agent_completed") > 0

\* C26: after a run the session holds exactly one cell and one memory for
\* each completed task and none for any other task; a task whose agent call
\* returned ends completed whether or not its records could be produced; and
\* within a run cells and memories are only appended.
C26_OneCellAndMemoryPerCompletedTask ==
    /\ [](RunEnded =>
             \A id \in DOMAIN task_status :
                 /\ RecordsOf(cells, id) =
                        (IF task_status[id] = "completed" THEN 1 ELSE 0)
                 /\ RecordsOf(memories, id) =
                        (IF task_status[id] = "completed" THEN 1 ELSE 0)
                 /\ (id \in completed_tasks /\ SkillReturned(id))
                        => task_status[id] = "completed")
    /\ [][(tasks' = tasks) =>
             (IsPrefix(cells, cells') /\ IsPrefix(memories, memories'))]_vars

\* The rosters that enable the first k stages of the pipeline, for some k.
PipelinePrefixes == {{Pipeline[j] : j \in 1..k} : k \in 0..Len(Pipeline)}

\* C27: a run all of whose agent calls succeed ends normally, with the
\* session completed and every planned task completed, exactly when the
\* roster is a prefix of the pipeline (the empty roster included); for every
\* other roster it ends with the deadlock error, the session failed and some
\* planned task left that is not ready.
C27_DeadlockUnlessPipelinePrefix ==
    (RunEnded /\ AllSucceed) =>
        IF roster \in PipelinePrefixes
        THEN /\ pc = "done"
             /\ raised = "none"
             /\ status = "completed"
             /\ Len(tasks) = Cardinality(roster)
             /\ \A id \in DOMAIN task_status : task_status[id] = "completed"
        ELSE /\ pc = "raised"
             /\ raised = "deadlock"
             /\ status = "failed"
             /\ pending # <<>>
             /\ SeqToSet(pending) = TaskIds(tasks) \ Dispatched
             /\ Eligible(Dispatched) = {}

\* A roster that is no prefix whose first stage ran and succeeded before the
\* deadlock error ended the run.
C27_Witness ==
    /\ RunEnded
    /\ AllSucceed
    /\ roster \notin PipelinePrefixes
    /\ raised = "deadlock"
    /\ status = "failed"
    /\ Len(waves) = 1
    /\ task_status[waves[1][1]] = "completed"

\* C28: for every dispatched task whose outcome has been processed exactly
\* one of agent_completed and agent_error was emitted, once: agent_completed
\* if and only if the task is completed, agent_error if and only if it is
\* failed.
C28_OneTerminalAgentEvent ==
    \A id \in Dispatched \cap completed_tasks :
        /\ TimesEmitted(id, "agent_completed")
               = (IF task_status[id] = "completed" THEN 1 ELSE 0)
        /\ TimesEmitted(id, "agent_error")
               = (IF task_status[id] = "failed" THEN 1 ELSE 0)

\* The tasks whose final status is s.
TasksWithStatus(s) == {id \in DOMAIN task_status : task_status[id] = s}

\* C29: in the summary execute_research_workflow returns, tasks_completed is
\* the number of tasks whose status is completed, which is the number of
\* entries of the returned result map, and the status is success only if no
\* task is failed.
C29_SummaryAgreesWithOutcomes ==
    summary.status # "none" =>
        /\ summary.tasks_completed = Cardinality(TasksWithStatus("completed"))
        /\ summary.tasks_completed = Cardinality(DOMAIN summary.results)
        /\ summary.status = "success" => TasksWithStatus("failed") = {}

\* What the result loop makes of the outcome of a task's agent run.
StatusFor(outcome) == IF outcome = "exception" THEN "failed" ELSE "completed"

\* C30: over a sink whose sends may raise, no exception comes out of
\* _emit_event and the run is the one the agent outcomes determine: every
\* settled task yields the outcome of its agent run, its status and its entry
\* in the result map follow from that outcome alone, and the run ends and the
\* session status is set as the planned tasks and these outcomes dictate,
\* however many sends were lost.
C30_SinkFailureChangesNothing ==
    /\ raised \in {"none", "deadlock"}
    /\ \A id \in DOMAIN task_results :
           task_results[id] \in Outcomes => task_results[id] = agent_outcome[id]
    /\ \A id \in completed_tasks :
           /\ task_status[id] = StatusFor(agent_outcome[id])
           /\ id \in DOMAIN results <=> agent_outcome[id] # "exception"
           /\ id \in DOMAIN results => results[id] = agent_outcome[id]
    /\ RunEnded =>
           IF TaskIds(tasks) \subseteq Dispatched
           THEN pc = "done" /\ status = "completed" /\ raised = "none"
                /\ summary.status = "success"
           ELSE pc = "raised" /\ status = "failed" /\ raised = "deadlock"
                /\ Eligible(Dispatched) = {}

\* A run that ended normally with a completed task although as many sends
\* raised as are counted.
C30_Witness ==
    /\ pc = "done"
    /\ sink.lost = MaxLost
    /\ status = "completed"
    /\ \E id \in DOMAIN task_status :
           task_status[id] = "completed" /\ agent_outcome[id] = "success"

====
